---- MODULE Spec2Model ----
(***************************************************************************)
(* Model of mockup_generator.py: a Streamlit script that composites design *)
(* images onto shirt templates (bounding-box placement) and zips the       *)
(* results.                                                                *)
(*                                                                         *)
(* Python floats are IEEE-754 binary64.  The placement arithmetic          *)
(* (sw / design.width, min(...) * padding_ratio, int(design.width * scale))*)
(* is modelled bit-exactly: a positive double is a record                  *)
(*   [m |-> <<l1, l2, l3, l4>>, e |-> k]                                   *)
(* whose 53-bit mantissa M = l1 + l2*2^14 + l3*2^28 + l4*2^42 is held in   *)
(* 14-bit limbs, least-significant first (2^52 <= M < 2^53), and whose     *)
(* value is M * 2^e.                                                       *)
(***************************************************************************)
EXTENDS Integers, Sequences, FiniteSets, TLC

\* ------------------------------------------------------------------------
\* binary64 arithmetic (round-to-nearest, ties-to-even) on 14-bit limbs

MantBits == 53
LimbBits == 14
MantLimbs == 4
DivLimbs == 6

RECURSIVE Pow2(_)
Pow2(n) == IF n = 0 THEN 1 ELSE 2 * Pow2(n - 1)

LimbBase == Pow2(LimbBits)

\* Number of binary digits of a natural number (0 -> 0).
RECURSIVE BitLen(_)
BitLen(n) == IF n = 0 THEN 0 ELSE 1 + BitLen(n \div 2)

\* Limbs of a natural number, least-significant first (0 -> << >>).
RECURSIVE NatLimbs(_)
NatLimbs(n) ==
    IF n = 0 THEN << >> ELSE <<n % LimbBase>> \o NatLimbs(n \div LimbBase)

\* The natural number held in limbs (least-significant first).
RECURSIVE LimbsNat(_, _)
LimbsNat(a, i) ==
    IF i > Len(a) THEN 0 ELSE a[i] + LimbBase * LimbsNat(a, i + 1)

Limb(a, j) == IF j \in 1..Len(a) THEN a[j] ELSE 0

\* Index of the highest non-zero limb (0 when there is none).
RECURSIVE TopLimb(_, _)
TopLimb(a, j) == IF j = 0 \/ a[j] # 0 THEN j ELSE TopLimb(a, j - 1)

BigLen(a) ==
    LET t == TopLimb(a, Len(a))
    IN IF t = 0 THEN 0 ELSE LimbBits * (t - 1) + BitLen(a[t])

\* Binary digit i (0 = least significant) of a.
BigBit(a, i) == (Limb(a, i \div LimbBits + 1) \div Pow2(i % LimbBits)) % 2

\* floor(a / 2^d) as MantLimbs limbs.
BigShr(a, d) ==
    LET q == d \div LimbBits
        r == d % LimbBits
    IN [i \in 1..MantLimbs |->
           (Limb(a, i + q) \div Pow2(r))
           + (Limb(a, i + q + 1) % Pow2(r)) * Pow2(LimbBits - r)]

\* The d lowest binary digits of a are all zero.
BigLowZero(a, d) ==
    /\ \A j \in 1..(d \div LimbBits) : Limb(a, j) = 0
    /\ Limb(a, d \div LimbBits + 1) % Pow2(d % LimbBits) = 0

\* a + 1, limb by limb from limb i (the top limb may reach 2^11).
RECURSIVE BigInc(_, _)
BigInc(a, i) ==
    IF i > Len(a) THEN a
    ELSE IF a[i] + 1 < LimbBase \/ i = Len(a) THEN [a EXCEPT ![i] = a[i] + 1]
    ELSE BigInc([a EXCEPT ![i] = 0], i + 1)

\* kept (53 bits, as limbs) at exponent e, rounded up when up holds; a
\* mantissa that reaches 2^53 becomes 2^52 at the next exponent.
RoundUp(kept, e, up) ==
    IF ~up THEN [m |-> kept, e |-> e]
    ELSE IF BigInc(kept, 1)[MantLimbs] < Pow2(MantBits - LimbBits * (MantLimbs - 1))
    THEN [m |-> BigInc(kept, 1), e |-> e]
    ELSE [m |-> [i \in 1..MantLimbs |->
                    IF i = MantLimbs
                    THEN Pow2(MantBits - LimbBits * (MantLimbs - 1) - 1) ELSE 0],
          e |-> e + 1]

\* a * 2^e with its drop lowest digits rounded away: nearest, ties to even.
RoundDrop(a, e, sticky, drop) ==
    RoundUp(BigShr(a, drop), e + drop,
            /\ BigBit(a, drop - 1) = 1
            /\ \/ sticky
               \/ ~BigLowZero(a, drop - 1)
               \/ BigBit(a, drop) = 1)

\* Round the exact positive value  a * 2^e  (plus a non-zero tail below
\* the lowest digit when sticky is TRUE; a has more than 53 digits) to 53
\* significant bits.
RoundBig(a, e, sticky) == RoundDrop(a, e, sticky, BigLen(a) - MantBits)

\* n fractional base-2^14 digits of r / b (0 <= r < b), least-significant
\* first, preceded by the final remainder.
RECURSIVE FracLimbs(_, _, _)
FracLimbs(r, b, n) ==
    IF n = 0 THEN <<r>>
    ELSE FracLimbs((r * LimbBase) % b, b, n - 1) \o <<(r * LimbBase) \div b>>

\* a / b for Python ints a >= 1, 1 <= b < 2^17: the double nearest a/b
\* (int true division is correctly rounded).
DivRound(fr, ipart) ==
    RoundBig(Tail(fr) \o NatLimbs(ipart), 0 - LimbBits * DivLimbs, fr[1] # 0)

FDivInt(a, b) == DivRound(FracLimbs(a % b, b, DivLimbs), a \div b)

\* float(n) for an integer n >= 1 (exact: n < 2^53).
FFromInt(n) ==
    RoundBig([i \in 1..MantLimbs |-> 0] \o NatLimbs(n),
             0 - LimbBits * MantLimbs, FALSE)

FOne == FFromInt(1)

\* Carry propagation over the column sums of a limb product.
RECURSIVE Carry(_, _, _)
Carry(cols, i, c) ==
    IF i > Len(cols)
    THEN <<c>>
    ELSE <<(cols[i] + c) % LimbBase>>
         \o Carry(cols, i + 1, (cols[i] + c) \div LimbBase)

\* Sum over i of x[i] * y[k + 1 - i] for the limb pairs of column k.
RECURSIVE ColSum(_, _, _, _)
ColSum(x, y, k, i) ==
    IF i > MantLimbs THEN 0
    ELSE (IF k + 1 - i \in 1..MantLimbs THEN x[i] * y[k + 1 - i] ELSE 0)
         + ColSum(x, y, k, i + 1)

\* x * y for positive doubles.
FMul(x, y) ==
    RoundBig(Carry([k \in 1..(2 * MantLimbs - 1) |-> ColSum(x.m, y.m, k, 1)], 1, 0),
             x.e + y.e, FALSE)

\* x < y for positive doubles.
FLess(x, y) ==
    \/ x.e < y.e
    \/ /\ x.e = y.e
       /\ \E i \in 1..MantLimbs :
             /\ x.m[i] < y.m[i]
             /\ \A j \in (i + 1)..MantLimbs : x.m[j] = y.m[j]

\* Python's min(a, b, c): the first of the smallest.
FMin2(a, b) == IF FLess(b, a) THEN b ELSE a

FMin3(a, b, c) == FMin2(FMin2(a, b), c)

\* int(x) for a positive double below 2^31: truncation.
FTrunc(x) ==
    IF 0 - x.e >= MantBits THEN 0
    ELSE LimbsNat(BigShr(x.m, 0 - x.e), 1)

\* ------------------------------------------------------------------------
\* Sidebar sliders (lines 18-21).  A padding slider value is k * 0.05 for
\* a step index k in PadMinStep..PadMaxStep (0.1 .. 1.0); the float handed
\* to the script is the double nearest k/20.

PadStepDen == 20
PadMinStep == 2
PadMaxStep == 20
PlainPadDefault == 9
ModelPadDefault == 7
OffsetMin == -50
OffsetMax == 100
PlainOffsetDefault == -7
ModelOffsetDefault == 3

PaddingSteps == PadMinStep..PadMaxStep
PaddingRatio(k) == FDivInt(k, PadStepDen)

\* ------------------------------------------------------------------------
\* Placement (lines 88-101 of the live preview, 132-145 of the batch loop)

\* get_shirt_bbox returns None or cv2.boundingRect's (x, y, w, h).
NoBBox == << >>

\* Mutant of MinRatio: the ratio without the 1.0 cap.
MinRatioUnclamped(dw, dh, sw, sh) == FMin2(FDivInt(sw, dw), FDivInt(sh, dh))

\* min(sw / design.width, sh / design.height, 1.0) * padding_ratio
MinRatio(dw, dh, sw, sh) == FMin3(FDivInt(sw, dw), FDivInt(sh, dh), FOne)

Scale(dw, dh, sw, sh, k) == FMul(MinRatio(dw, dh, sw, sh), PaddingRatio(k))

\* int(design.width * scale)
ScaledDim(d, scale) == FTrunc(FMul(FFromInt(d), scale))

\* n // 100 (floor), the mutant of int(n / 100) below.
FloorDiv100(n) == n \div 100

\* int(n / 100): true division to the nearest double, then truncation
\* toward zero.
TruncDiv100(n) ==
    IF n = 0 THEN 0
    ELSE IF n > 0 THEN FTrunc(FDivInt(n, 100))
    ELSE 0 - FTrunc(FDivInt(0 - n, 100))

\* y_offset = int(sh * offset_pct / 100)
YOffset(sh, offset_pct) == TruncDiv100(sh * offset_pct)

\* (outer - inner) // 2
CenterOffset(outer, inner) == (outer - inner) \div 2

Placed(w, h, x, y) == [status |-> "pasted", w |-> w, h |-> h, x |-> x, y |-> y]
Raised(exc) == [status |-> exc, w |-> 0, h |-> 0, x |-> 0, y |-> 0]

\* Mutant of FallbackPlacement: the vertical offset is applied here too.
FallbackWithOffset(dw, dh, tw, th, offset_pct) ==
    Placed(dw, dh, CenterOffset(tw, dw),
           CenterOffset(th, dh) + YOffset(th, offset_pct))

\* else-branch: resized_design = design, centred on the template canvas.
FallbackPlacement(dw, dh, tw, th, offset_pct) ==
    Placed(dw, dh, CenterOffset(tw, dw), CenterOffset(th, dh))

\* Lines 94-97 and 138-141.  Image.resize raises ValueError ("height and
\* width must be > 0") for a target dimension below 1.
ResizeAndPlace(new_width, new_height, bbox, offset_pct) ==
    IF new_width < 1 \/ new_height < 1 THEN Raised("ValueError")
    ELSE Placed(new_width, new_height,
                bbox[1] + CenterOffset(bbox[3], new_width),
                bbox[2] + YOffset(bbox[4], offset_pct))

\* Lines 92-93 and 136-137.
ScaleAndPlace(dw, dh, scale, bbox, offset_pct) ==
    ResizeAndPlace(ScaledDim(dw, scale), ScaledDim(dh, scale), bbox, offset_pct)

\* if-branch.  sw / design.width raises ZeroDivisionError for a zero
\* divisor.
BBoxPlacement(dw, dh, bbox, k, offset_pct) ==
    IF dw = 0 \/ dh = 0 THEN Raised("ZeroDivisionError")
    ELSE ScaleAndPlace(dw, dh, Scale(dw, dh, bbox[3], bbox[4], k), bbox, offset_pct)

\* The placement of a decoded design (dw x dh) on a decoded template
\* (tw x th) whose detected bounding box is bbox.
ComputePlacement(dw, dh, tw, th, bbox, k, offset_pct) ==
    IF bbox # NoBBox
    THEN BBoxPlacement(dw, dh, bbox, k, offset_pct)
    ELSE FallbackPlacement(dw, dh, tw, th, offset_pct)

\* ------------------------------------------------------------------------
\* SpecPlace: the placement applied to every input of a bounded grid.

DimStep == 10
MaxDim == 3
BoxStep == 10
MaxBox == 2
BoxX == 5
BoxY == 5
BlankStep == 5
MaxBlank == 3
OffsetThird == 0 - 33

\* Sizes of a decoded design, and the sizes a design file's header can
\* declare (zero included).
DesignDims == {DimStep * i : i \in 1..MaxDim}
HeaderDims == {0} \cup DesignDims
BoxDims == {BoxStep * i : i \in 1..MaxBox}
BlankDims == {BlankStep * i : i \in 1..MaxBlank}
OffsetSamples == {OffsetMin, OffsetThird, PlainOffsetDefault, ModelOffsetDefault, OffsetMax}

\* Decoded templates: with a detected region (the canvas encloses it), or
\* all-white (get_shirt_bbox returns None).
PlaceTemplates ==
    {[tw |-> BoxX + bw + BoxX, th |-> BoxY + bh + BoxY,
      bbox |-> <<BoxX, BoxY, bw, bh>>] : bw \in BoxDims, bh \in BoxDims}
    \cup {[tw |-> w, th |-> h, bbox |-> NoBBox] : w \in BlankDims, h \in BlankDims}

PlaceInputs ==
    {[dw |-> dw, dh |-> dh, tw |-> t.tw, th |-> t.th, bbox |-> t.bbox,
      k |-> k, pct |-> pct] :
        dw \in HeaderDims, dh \in HeaderDims, t \in PlaceTemplates,
        k \in PaddingSteps, pct \in OffsetSamples}

\* ------------------------------------------------------------------------
\* Strings are sequences of one-character strings.

UpperChars ==
    <<"A","B","C","D","E","F","G","H","I","J","K","L","M",
      "N","O","P","Q","R","S","T","U","V","W","X","Y","Z",
      "À","Á","Â","Ã","Ä","Å","Æ","Ç","È","É","Ê","Ë","Ì","Í","Î","Ï",
      "Ð","Ñ","Ò","Ó","Ô","Õ","Ö","Ø","Ù","Ú","Û","Ü","Ý","Þ">>
LowerChars ==
    <<"a","b","c","d","e","f","g","h","i","j","k","l","m",
      "n","o","p","q","r","s","t","u","v","w","x","y","z",
      "à","á","â","ã","ä","å","æ","ç","è","é","ê","ë","ì","í","î","ï",
      "ð","ñ","ò","ó","ô","õ","ö","ø","ù","ú","û","ü","ý","þ">>

\* str.lower() of one character.  Characters are those of Basic Latin and
\* Latin-1 Supplement (U+0000..U+00FF), where lower() maps the 56 letters
\* of UpperChars one to one and leaves every other character as it is.
LowerChar(c) ==
    IF \E i \in 1..Len(UpperChars) : UpperChars[i] = c
    THEN LowerChars[CHOOSE i \in 1..Len(UpperChars) : UpperChars[i] = c]
    ELSE c

\* str.lower()
StrLower(s) == [i \in 1..Len(s) |-> LowerChar(s[i])]

\* sub in s
StrContains(s, sub) ==
    \E i \in 1..(Len(s) - Len(sub) + 1) : SubSeq(s, i, i + Len(sub) - 1) = sub

\* str.rfind(c): the last index of c in s, 0 when there is none
\* (indices are 1-based here).
RFind(s, c) ==
    IF \E i \in 1..Len(s) : s[i] = c
    THEN CHOOSE i \in 1..Len(s) : s[i] = c /\ \A j \in (i + 1)..Len(s) : s[j] # c
    ELSE 0

\* os.path.splitext(p)[0]: p up to its last dot, when that dot follows
\* the last "/" and some character between them is not a dot.
SplitExtRoot(p) ==
    LET sepIndex == RFind(p, "/")
        dotIndex == RFind(p, ".")
    IN IF dotIndex > sepIndex
          /\ \E j \in (sepIndex + 1)..(dotIndex - 1) : p[j] # "."
       THEN SubSeq(p, 1, dotIndex - 1)
       ELSE p

ModelWord == <<"m","o","d","e","l">>

\* Mutant of IsModel: the test without .lower().
IsModelCaseSensitive(name) == StrContains(name, ModelWord)

\* "model" in shirt_file.name.lower()
IsModel(name) == StrContains(StrLower(name), ModelWord)

\* f"{graphic_name}_{color_name}_tee.png"
OutputName(graphic_name, color_name) ==
    graphic_name \o <<"_">> \o color_name \o <<"_","t","e","e",".","p","n","g">>

\* f"{graphic_name}.zip"
InnerZipName(graphic_name) == graphic_name \o <<".","z","i","p">>

GraphicDefault == <<"g","r","a","p","h","i","c">>

\* ------------------------------------------------------------------------
\* Uploaded files.  A file has a name and bytes; Image.open(...).convert
\* either raises (ok = FALSE) or yields an image of w x h pixels, and for a
\* template get_shirt_bbox yields bbox.

DesignCatalogue ==
    <<[name |-> <<"l","o","g","o",".","p","n","g">>,
       ok |-> TRUE, w |-> 20, h |-> 20],
      [name |-> <<"B","i","g",".","A","r","t",".","j","p","e","g">>,
       ok |-> TRUE, w |-> 30, h |-> 10],
      [name |-> <<"b","a","d",".","p","n","g">>,
       ok |-> FALSE, w |-> 0, h |-> 0]>>

ShirtCatalogue ==
    <<[name |-> <<"W","h","i","t","e","-","P","l","a","i","n",".","p","n","g">>,
       ok |-> TRUE, w |-> 40, h |-> 40, bbox |-> <<5, 5, 30, 30>>],
      [name |-> <<"G","r","a","y","-","M","o","d","e","l",".","p","n","g">>,
       ok |-> TRUE, w |-> 30, h |-> 40, bbox |-> <<5, 5, 20, 30>>],
      [name |-> <<"b","l","a","n","k",".","M","O","D","E","L",".","j","p","g">>,
       ok |-> TRUE, w |-> 15, h |-> 15, bbox |-> NoBBox],
      [name |-> <<"t","o","r","n",".","p","n","g">>,
       ok |-> FALSE, w |-> 0, h |-> 0, bbox |-> NoBBox]>>

MaxDesigns == 2
MaxShirts == 2

CustomNames == {<<"T","e","e">>}
\* Slider positions <<plain padding, model padding, plain offset, model
\* offset>> the session moves between: the defaults and two others.
SliderSettings ==
    {<<PlainPadDefault, ModelPadDefault, PlainOffsetDefault, ModelOffsetDefault>>,
     <<PadMaxStep, ModelPadDefault, OffsetMax, OffsetMin>>,
     <<PlainPadDefault, PadMaxStep, PlainOffsetDefault, OffsetMax>>}

DesignIds == 1..Len(DesignCatalogue)
ShirtIds == 1..Len(ShirtCatalogue)
DesignName(f) == DesignCatalogue[f].name
ShirtName(f) == ShirtCatalogue[f].name

\* A script variable no statement has bound yet.
Undefined == [unbound |-> TRUE]

\* Image.open(design_file).convert("RGBA") for a decodable design.
DecodeDesign(f) ==
    [src |-> f, w |-> DesignCatalogue[f].w, h |-> DesignCatalogue[f].h]

\* Image.open(shirt_file).convert("RGBA") for a decodable template; layers
\* are the images pasted onto this image object.
DecodeShirt(f) ==
    [src |-> f, w |-> ShirtCatalogue[f].w, h |-> ShirtCatalogue[f].h, layers |-> << >>]

\* get_shirt_bbox(shirt)
GetShirtBBox(shirt) == ShirtCatalogue[shirt.src].bbox

\* Mutant of ResizeLeaves: the design object itself is resized.
ResizeInPlace(design, w, h) == [design EXCEPT !.w = w, !.h = h]

\* design.resize(...) returns a new image; the design object is unchanged.
ResizeLeaves(design, w, h) == design

\* shirt_copy = shirt.copy(); shirt_copy.paste(resized_design, (x, y), ...)
PasteOnCopy(shirt, layer) ==
    [shirt |-> shirt,
     copy  |-> [shirt EXCEPT !.layers = Append(shirt.layers, layer)]]

VARIABLES
    p_in, p_site, p_out,          \* SpecPlace: input, call site, result
    plain_padding_ratio, model_padding_ratio,    \* sliders, as step indices
    plain_offset_pct, model_offset_pct,
    design_files, shirt_files,    \* the uploaders' lists (catalogue ids)
    design_names,                 \* st.session_state.design_names
    batch_start, batch_end,       \* number inputs (0: not rendered)
    selected_design, selected_shirt,   \* selectbox positions (0: not rendered)
    selected_batch,               \* script variable, unbound when no design
    preview,                      \* what the Live Preview section showed
    unrendered,                   \* values of widgets the run did not reach
    loc,                          \* script variables of the placement code
    pc, di, si,                   \* position in the Generate handler
    graphic_name, zipf, master_zipf,
    outcome                       \* what the Generate handler ended with

placeVars == <<p_in, p_site, p_out>>
sliderVars == <<plain_padding_ratio, model_padding_ratio,
                plain_offset_pct, model_offset_pct>>
uiVars == <<design_files, shirt_files, design_names, batch_start, batch_end,
            selected_design, selected_shirt, selected_batch, preview,
            unrendered>>
genVars == <<loc, pc, di, si, graphic_name, zipf, master_zipf, outcome>>

vars == <<placeVars, sliderVars, uiVars, genVars>>

\* Mutant of Decodes: a file of any declared size is decoded.
DecodesAnySize(w, h) == TRUE

\* Image.open(...) on image bytes whose header declares w x h pixels: Pillow
\* identifies no image of non-positive width or height and raises
\* UnidentifiedImageError.
Decodes(w, h) == w > 0 /\ h > 0

\* Lines 80-101 and 119-145: the design file is decoded, then placed.
PlaceOf(i) ==
    IF Decodes(i.dw, i.dh)
    THEN ComputePlacement(i.dw, i.dh, i.tw, i.th, i.bbox, i.k, i.pct)
    ELSE Raised("UnidentifiedImageError")

NoLocals ==
    [design |-> Undefined, shirt |-> Undefined, is_model |-> Undefined,
     offset_pct |-> Undefined, padding_ratio |-> Undefined,
     place |-> Undefined, shirt_copy |-> Undefined]

Unbound == [bound |-> FALSE, value |-> << >>]

\* No widget value is held apart from the widgets the run rendered.
NoWidgets == [held |-> FALSE]
Bound(v) == [bound |-> TRUE, value |-> v]

\* The state of a fresh session before any file is uploaded.
SessionInit ==
    /\ plain_padding_ratio = PlainPadDefault
    /\ model_padding_ratio = ModelPadDefault
    /\ plain_offset_pct = PlainOffsetDefault
    /\ model_offset_pct = ModelOffsetDefault
    /\ design_files = << >>
    /\ shirt_files = << >>
    /\ design_names = << >>
    /\ batch_start = 0
    /\ batch_end = 0
    /\ selected_design = 0
    /\ selected_shirt = 0
    /\ selected_batch = Unbound
    /\ preview = [shown |-> "none"]
    /\ unrendered = NoWidgets
    /\ loc = NoLocals
    /\ pc = "idle"
    /\ di = 0
    /\ si = 0
    /\ graphic_name = << >>
    /\ zipf = << >>
    /\ master_zipf = << >>
    /\ outcome = "none"

PlaceInit ==
    /\ p_in \in PlaceInputs
    /\ p_site = "input"
    /\ p_out = Raised("none")
    /\ SessionInit

\* Lines 80-101: the live preview decodes the design and places it.
PreviewPlace ==
    /\ p_site = "input"
    /\ p_site' = "preview"
    /\ p_out' = PlaceOf(p_in)
    /\ UNCHANGED <<p_in, sliderVars, uiVars, genVars>>

\* Lines 119-145: the batch loop decodes the design and places it.
BatchPlace ==
    /\ p_site = "input"
    /\ p_site' = "batch"
    /\ p_out' = PlaceOf(p_in)
    /\ UNCHANGED <<p_in, sliderVars, uiVars, genVars>>

PlaceNext == PreviewPlace \/ BatchPlace

SpecPlace == PlaceInit /\ [][PlaceNext]_vars
\* ------------------------------------------------------------------------
\* Spec: the script's runs.  Every widget event re-runs the script from
\* the top; a run is an action, except that the Generate handler's loops
\* advance one image per step.

BatchSpan == 19

Min(a, b) == IF a < b THEN a ELSE b

\* Lines 85-86 and 129-130.
PickParams(is_model, pp, mp, po, mo) ==
    [offset_pct    |-> IF is_model THEN mo ELSE po,
     padding_ratio |-> IF is_model THEN mp ELSE pp]

\* Lines 98-104 and 142-148 once the placement is computed: the script
\* variables afterwards, and the exception raised ("none").
PasteResult(design, shirt, is_model, params, resized, place, pasted) ==
    [design |-> IF resized THEN ResizeLeaves(design, place.w, place.h) ELSE design,
     shirt |-> pasted.shirt, is_model |-> is_model,
     offset_pct |-> params.offset_pct, padding_ratio |-> params.padding_ratio,
     place |-> place, shirt_copy |-> pasted.copy, exc |-> "none"]

PlaceResult(prev, design, shirt, is_model, params, resized, place) ==
    IF place.status # "pasted"
    THEN [design |-> design, shirt |-> shirt, is_model |-> is_model,
          offset_pct |-> params.offset_pct, padding_ratio |-> params.padding_ratio,
          place |-> prev.place, shirt_copy |-> prev.shirt_copy,
          exc |-> place.status]
    ELSE PasteResult(design, shirt, is_model, params, resized, place,
                     PasteOnCopy(shirt, [src |-> design.src,
                                         w |-> place.w, h |-> place.h,
                                         x |-> place.x, y |-> place.y]))

\* The placements of the catalogue's images under the slider settings,
\* evaluated once; PlacementOf is ComputePlacement read from that table.
CatalogueArgs ==
    {<<DesignCatalogue[d].w, DesignCatalogue[d].h,
       ShirtCatalogue[t].w, ShirtCatalogue[t].h, ShirtCatalogue[t].bbox, v[i], v[j]>> :
        d \in {x \in DesignIds : DesignCatalogue[x].ok},
        t \in {x \in ShirtIds : ShirtCatalogue[x].ok},
        v \in SliderSettings, i \in {1, 2}, j \in {3, 4}}

PlacementTable ==
    {<<a, ComputePlacement(a[1], a[2], a[3], a[4], a[5], a[6], a[7])>> :
        a \in CatalogueArgs}

TableLookup(a, dw, dh, tw, th, bbox, k, pct) ==
    IF a \in CatalogueArgs
    THEN (CHOOSE p \in PlacementTable : p[1] = a)[2]
    ELSE ComputePlacement(dw, dh, tw, th, bbox, k, pct)

PlacementOf(dw, dh, tw, th, bbox, k, pct) ==
    TableLookup(<<dw, dh, tw, th, bbox, k, pct>>, dw, dh, tw, th, bbox, k, pct)

\* Lines 88-97 and 132-141.
PlaceOn(prev, design, shirt, is_model, params, bbox) ==
    PlaceResult(prev, design, shirt, is_model, params, bbox # NoBBox,
                PlacementOf(design.w, design.h, shirt.w, shirt.h, bbox,
                                 params.padding_ratio, params.offset_pct))

\* Lines 84-86 and 128-130.
CompositeDecoded(prev, design, shirt, is_model, pp, mp, po, mo) ==
    PlaceOn(prev, design, shirt, is_model, PickParams(is_model, pp, mp, po, mo),
            GetShirtBBox(shirt))

\* Lines 81-104 and 124-148 for one decoded design and one template file.
\* prev holds the script variables as they were: a statement that raises
\* leaves the variables assigned after it with the values they had.
Composite(prev, design, t, pp, mp, po, mo) ==
    IF ~ShirtCatalogue[t].ok
    THEN [design |-> design, shirt |-> prev.shirt, is_model |-> prev.is_model,
          offset_pct |-> prev.offset_pct, padding_ratio |-> prev.padding_ratio,
          place |-> prev.place, shirt_copy |-> prev.shirt_copy,
          exc |-> "UnidentifiedImageError"]
    ELSE CompositeDecoded(prev, design, DecodeShirt(t), IsModel(ShirtName(t)),
                          pp, mp, po, mo)

Locals(c) ==
    [design |-> c.design, shirt |-> c.shirt, is_model |-> c.is_model,
     offset_pct |-> c.offset_pct, padding_ratio |-> c.padding_ratio,
     place |-> c.place, shirt_copy |-> c.shirt_copy]

\* Lines 41-50: every uploaded design's text input, whose value is the
\* name typed for it (names[file.name] when one is recorded, else the file
\* name's root), is stored under the file's name.
NamingSection(df, names) ==
    LET uploaded == {DesignName(df[i]) : i \in 1..Len(df)}
    IN [n \in (DOMAIN names) \cup uploaded |->
           IF n \in DOMAIN names THEN names[n] ELSE SplitExtRoot(n)]

\* Lines 103-107: st.image, or the except branch's st.error.
PreviewResult(c) ==
    IF c.exc # "none"
    THEN [shown |-> "error", exc |-> c.exc, loc |-> Locals(c)]
    ELSE [shown |-> "image", image |-> c.shirt_copy, loc |-> Locals(c)]

\* Lines 73-107: the Live Preview section with its try/except.
LivePreview(df, sf, sd, ss, pp, mp, po, mo) ==
    IF df = << >> \/ sf = << >>
    THEN [shown |-> "none", loc |-> NoLocals]
    ELSE IF ~DesignCatalogue[df[sd]].ok
    THEN [shown |-> "error", exc |-> "UnidentifiedImageError", loc |-> NoLocals]
    ELSE PreviewResult(Composite(NoLocals, DecodeDesign(df[sd]), sf[ss],
                                 pp, mp, po, mo))

\* One run of the script from the top through the Live Preview section
\* (lines 18-107) with the widgets' values as given, then line 110: gen is
\* the Generate button's value.
ScriptRun(df, sf, pp, mp, po, mo, names, bs, be, sd, ss, gen) ==
    /\ plain_padding_ratio' = pp
    /\ model_padding_ratio' = mp
    /\ plain_offset_pct' = po
    /\ model_offset_pct' = mo
    /\ design_files' = df
    /\ shirt_files' = sf
    /\ design_names' = NamingSection(df, names)
    /\ batch_start' = bs
    /\ batch_end' = be
    /\ selected_batch' = IF df = << >> THEN Unbound ELSE Bound(SubSeq(df, bs, be))
    /\ selected_design' = sd
    /\ selected_shirt' = ss
    /\ unrendered' = NoWidgets
    /\ \E pv \in {LivePreview(df, sf, sd, ss, pp, mp, po, mo)} :
          /\ preview' = [f \in (DOMAIN pv) \ {"loc"} |-> pv[f]]
          /\ loc' = pv.loc
    /\ di' = 0
    /\ si' = 0
    /\ graphic_name' = << >>
    /\ zipf' = << >>
    /\ master_zipf' = << >>
    /\ IF ~gen THEN pc' = "idle" /\ outcome' = "none"
       ELSE IF df = << >> THEN pc' = "done" /\ outcome' = "NameError"
       ELSE IF sf = << >> THEN pc' = "done" /\ outcome' = "warning"
       ELSE pc' = "design" /\ outcome' = "none"
    /\ UNCHANGED placeVars

Interactive == pc \in {"idle", "done"}

\* Widget defaults (lines 56-57, 75-76): a widget whose arguments changed
\* is a new widget and shows its default.
DefaultStart(df) == IF df = << >> THEN 0 ELSE 1
DefaultEnd(df, bs) == IF df = << >> THEN 0 ELSE Min(bs + BatchSpan, Len(df))
DefaultSelect(df, sf) == IF df = << >> \/ sf = << >> THEN 0 ELSE 1

\* A run in which the uploaders' lists are df and sf, one of which changed.
\* The select boxes (lines 75-76) are rendered only when both lists are
\* non-empty (line 73); one that was not rendered, or whose options
\* changed, shows its default.
FilesChanged(df, sf) ==
    LET bs == IF df = design_files THEN batch_start ELSE DefaultStart(df)
        be == IF df = design_files THEN batch_end ELSE DefaultEnd(df, bs)
        sd == IF df = << >> \/ sf = << >> THEN 0
              ELSE IF df = design_files /\ selected_design # 0
              THEN selected_design ELSE DefaultSelect(df, sf)
        ss == IF df = << >> \/ sf = << >> THEN 0
              ELSE IF sf = shirt_files /\ selected_shirt # 0
              THEN selected_shirt ELSE DefaultSelect(df, sf)
    IN ScriptRun(df, sf, plain_padding_ratio, model_padding_ratio,
                 plain_offset_pct, model_offset_pct, design_names,
                 bs, be, sd, ss, FALSE)

\* A run with the files and the selection widgets as they are.
SameFiles(pp, mp, po, mo, names, bs, be, sd, ss, gen) ==
    ScriptRun(design_files, shirt_files, pp, mp, po, mo, names, bs, be, sd, ss, gen)

InSeq(x, q) == \E i \in 1..Len(q) : q[i] = x
RemoveAt(q, i) == SubSeq(q, 1, i - 1) \o SubSeq(q, i + 1, Len(q))

\* Line 30: a design file is added to or removed from the uploader.
AddDesign ==
    /\ Interactive
    /\ Len(design_files) < MaxDesigns
    /\ \E f \in DesignIds :
          /\ ~InSeq(f, design_files)
          /\ FilesChanged(Append(design_files, f), shirt_files)

RemoveDesign ==
    /\ Interactive
    /\ \E i \in 1..Len(design_files) :
          FilesChanged(RemoveAt(design_files, i), shirt_files)

\* Line 31: a template file is added to or removed from the uploader.
AddShirt ==
    /\ Interactive
    /\ Len(shirt_files) < MaxShirts
    /\ \E f \in ShirtIds :
          /\ ~InSeq(f, shirt_files)
          /\ FilesChanged(design_files, Append(shirt_files, f))

RemoveShirt ==
    /\ Interactive
    /\ \E i \in 1..Len(shirt_files) :
          FilesChanged(design_files, RemoveAt(shirt_files, i))

\* Lines 18-21: the sliders are moved to another setting.
MoveSliders ==
    /\ Interactive
    /\ \E v \in SliderSettings :
          /\ v # <<plain_padding_ratio, model_padding_ratio,
                   plain_offset_pct, model_offset_pct>>
          /\ SameFiles(v[1], v[2], v[3], v[4], design_names, batch_start, batch_end,
                       selected_design, selected_shirt, FALSE)

\* Lines 45-50: a name is typed into design i's text input.
Rename ==
    /\ Interactive
    /\ \E i \in 1..Len(design_files), nm \in CustomNames :
          /\ design_names[DesignName(design_files[i])] # nm
          /\ SameFiles(plain_padding_ratio, model_padding_ratio,
                       plain_offset_pct, model_offset_pct,
                       [design_names EXCEPT ![DesignName(design_files[i])] = nm],
                       batch_start, batch_end,
                       selected_design, selected_shirt, FALSE)

\* Line 56: "Start from Design #" is set; "End at Design #" (line 57), whose
\* min_value and value derive from it, shows its default again.
SetBatchStart ==
    /\ Interactive
    /\ \E v \in 1..Len(design_files) :
          /\ v # batch_start
          /\ SameFiles(plain_padding_ratio, model_padding_ratio,
                       plain_offset_pct, model_offset_pct, design_names,
                       v, DefaultEnd(design_files, v),
                       selected_design, selected_shirt, FALSE)

\* Line 57: "End at Design #" is set within min_value..max_value.
SetBatchEnd ==
    /\ Interactive
    /\ design_files # << >>
    /\ \E v \in batch_start..Len(design_files) :
          /\ v # batch_end
          /\ SameFiles(plain_padding_ratio, model_padding_ratio,
                       plain_offset_pct, model_offset_pct, design_names,
                       batch_start, v, selected_design, selected_shirt, FALSE)

\* Lines 75-76: the preview's select boxes.
SelectDesign ==
    /\ Interactive
    /\ shirt_files # << >>
    /\ \E i \in 1..Len(design_files) :
          /\ i # selected_design
          /\ SameFiles(plain_padding_ratio, model_padding_ratio,
                       plain_offset_pct, model_offset_pct, design_names,
                       batch_start, batch_end, i, selected_shirt, FALSE)

SelectShirt ==
    /\ Interactive
    /\ design_files # << >>
    /\ \E j \in 1..Len(shirt_files) :
          /\ j # selected_shirt
          /\ SameFiles(plain_padding_ratio, model_padding_ratio,
                       plain_offset_pct, model_offset_pct, design_names,
                       batch_start, batch_end, selected_design, j, FALSE)

\* Lines 18-38: the run in which Start Over is pressed.  The sliders and
\* the uploaders are rendered, design_names (and zip_files_output) are
\* deleted, and st.rerun() ends the run before any statement below line 38:
\* no text input, number input or select box is rendered and no script
\* variable below is bound.  The values those widgets had are what the
\* session may still hold for them.
StartOver ==
    /\ Interactive
    /\ design_names' = << >>
    /\ unrendered' =
          [held |-> TRUE,
           names |-> [n \in {DesignName(design_files[i]) : i \in 1..Len(design_files)}
                         |-> design_names[n]],
           batch_start |-> batch_start, batch_end |-> batch_end,
           selected_design |-> selected_design, selected_shirt |-> selected_shirt]
    /\ batch_start' = 0
    /\ batch_end' = 0
    /\ selected_design' = 0
    /\ selected_shirt' = 0
    /\ selected_batch' = Unbound
    /\ preview' = [shown |-> "none"]
    /\ loc' = NoLocals
    /\ pc' = "rerun"
    /\ di' = 0
    /\ si' = 0
    /\ graphic_name' = << >>
    /\ zipf' = << >>
    /\ master_zipf' = << >>
    /\ outcome' = "none"
    /\ UNCHANGED <<placeVars, sliderVars, design_files, shirt_files>>

\* The run st.rerun() (line 38) asked for: the script from the top, the
\* button False.  Whether the session still holds the value of a widget the
\* previous run did not render is Streamlit's choice, not the script's, and
\* it is made widget by widget: a text input comes back with the name it had
\* or with its default, and so do the number inputs and the select boxes
\* ("End at Design #" can keep its value only if "Start from Design #", from
\* which its arguments derive, keeps its own).
Rerun ==
    /\ pc = "rerun"
    /\ \E kept \in SUBSET (DOMAIN unrendered.names),
          keep_start \in BOOLEAN, keep_end \in BOOLEAN,
          keep_design \in BOOLEAN, keep_shirt \in BOOLEAN :
          LET bs == IF keep_start THEN unrendered.batch_start
                    ELSE DefaultStart(design_files)
          IN SameFiles(plain_padding_ratio, model_padding_ratio,
                       plain_offset_pct, model_offset_pct,
                       [n \in kept |-> unrendered.names[n]],
                       bs,
                       IF keep_start /\ keep_end THEN unrendered.batch_end
                       ELSE DefaultEnd(design_files, bs),
                       IF keep_design THEN unrendered.selected_design
                       ELSE DefaultSelect(design_files, shirt_files),
                       IF keep_shirt THEN unrendered.selected_shirt
                       ELSE DefaultSelect(design_files, shirt_files),
                       FALSE)

\* A run in which no widget value changed: the download button (line 160)
\* is clicked, or the app is run again.  Both buttons of the script are
\* False, so what the Generate handler left is gone.
RunAgain ==
    /\ Interactive
    /\ SameFiles(plain_padding_ratio, model_padding_ratio,
                 plain_offset_pct, model_offset_pct, design_names,
                 batch_start, batch_end, selected_design, selected_shirt, FALSE)

\* Line 110: the Generate button is pressed; lines 111-115.
PressGenerate ==
    /\ Interactive
    /\ SameFiles(plain_padding_ratio, model_padding_ratio,
                 plain_offset_pct, model_offset_pct, design_names,
                 batch_start, batch_end, selected_design, selected_shirt, TRUE)

genFrame == <<placeVars, sliderVars, uiVars>>

\* Lines 116-122: the next design of the batch is named and decoded, and
\* its inner archive is created.  When the decode raises (line 119) the
\* inner archive of the previous design is still what zipf names.
OpenDesign ==
    /\ pc = "design"
    /\ LET f == selected_batch.value[di + 1]
           n == DesignName(f)
       IN /\ graphic_name' = IF n \in DOMAIN design_names
                             THEN design_names[n] ELSE GraphicDefault
          /\ IF DesignCatalogue[f].ok
             THEN /\ loc' = [loc EXCEPT !.design = DecodeDesign(f)]
                  /\ pc' = "shirt"
                  /\ outcome' = outcome
                  /\ si' = 0
                  /\ zipf' = << >>
             ELSE /\ loc' = loc
                  /\ pc' = "done"
                  /\ outcome' = "UnidentifiedImageError"
                  /\ si' = si
                  /\ zipf' = zipf
    /\ di' = di + 1
    /\ UNCHANGED <<master_zipf, genFrame>>

\* Lines 123-154: the next template is decoded, composited and written.
ProcessShirt ==
    /\ pc = "shirt"
    /\ \E c \in {Composite(loc, loc.design, shirt_files[si + 1],
                           plain_padding_ratio, model_padding_ratio,
                           plain_offset_pct, model_offset_pct)} :
          /\ loc' = Locals(c)
          /\ IF c.exc = "none"
             THEN /\ zipf' = Append(zipf,
                        [name |-> OutputName(graphic_name,
                                     SplitExtRoot(ShirtName(shirt_files[si + 1]))),
                         data |-> c.shirt_copy])
                  /\ pc' = IF si + 1 = Len(shirt_files) THEN "close" ELSE "shirt"
                  /\ outcome' = outcome
             ELSE /\ zipf' = zipf
                  /\ pc' = "done"
                  /\ outcome' = c.exc
    /\ si' = si + 1
    /\ UNCHANGED <<di, graphic_name, master_zipf, genFrame>>

\* Lines 156-157: the inner archive is written into the master archive.
CloseInner ==
    /\ pc = "close"
    /\ master_zipf' = Append(master_zipf,
                             [name |-> InnerZipName(graphic_name), data |-> zipf])
    /\ pc' = IF di = Len(selected_batch.value) THEN "offer" ELSE "design"
    /\ UNCHANGED <<loc, di, si, graphic_name, zipf, outcome, genFrame>>

\* Lines 159-165: the master archive is offered for download.
OfferDownload ==
    /\ pc = "offer"
    /\ outcome' = "download"
    /\ pc' = "done"
    /\ UNCHANGED <<loc, di, si, graphic_name, zipf, master_zipf, genFrame>>

Init ==
    /\ SessionInit
    /\ p_in = [dw |-> 0, dh |-> 0, tw |-> 0, th |-> 0, bbox |-> NoBBox,
               k |-> PlainPadDefault, pct |-> PlainOffsetDefault]
    /\ p_site = "input"
    /\ p_out = Raised("none")

Next ==
    \/ AddDesign \/ RemoveDesign \/ AddShirt \/ RemoveShirt
    \/ MoveSliders
    \/ Rename \/ SetBatchStart \/ SetBatchEnd \/ SelectDesign \/ SelectShirt
    \/ StartOver \/ Rerun \/ RunAgain \/ PressGenerate
    \/ OpenDesign \/ ProcessShirt \/ CloseInner \/ OfferDownload

Spec == Init /\ [][Next]_vars

\* ========================================================================
\* Properties of the placement (checked under SpecPlace)

Placing == p_site # "input"
HasBBox == p_in.bbox # NoBBox
Pasted == p_out.status = "pasted"

\* min(bw/dw, bh/dh, 1) as a fraction RatioNum / RatioDen of integers.
RatioNum(dw, dh, bw, bh) ==
    IF bw >= dw /\ bh >= dh THEN 1
    ELSE IF bw * dh <= bh * dw THEN bw ELSE bh

RatioDen(dw, dh, bw, bh) ==
    IF bw >= dw /\ bh >= dh THEN 1
    ELSE IF bw * dh <= bh * dw THEN dw ELSE dh

\* floor(d * min(bw/dw, bh/dh, 1) * k/20) over the rationals.
ExactScaled(d, dw, dh, bw, bh, k) ==
    (d * RatioNum(dw, dh, bw, bh) * k) \div (RatioDen(dw, dh, bw, bh) * PadStepDen)

\* C1: with a bounding box (bx, by, bw, bh), a design of dw >= 1 by dh >= 1
\* pixels and a padding ratio in (0, 1], the design is resized to exactly
\* (floor(dw * s), floor(dh * s)), s = min(bw/dw, bh/dh, 1) * padding_ratio,
\* and pasted at x = bx + (bw - resized_width) // 2.
C1_ExactFloorResize ==
    (Placing /\ HasBBox /\ p_in.dw >= 1 /\ p_in.dh >= 1) =>
        /\ Pasted
        /\ p_out.w = ExactScaled(p_in.dw, p_in.dw, p_in.dh,
                                 p_in.bbox[3], p_in.bbox[4], p_in.k)
        /\ p_out.h = ExactScaled(p_in.dh, p_in.dw, p_in.dh,
                                 p_in.bbox[3], p_in.bbox[4], p_in.k)
        /\ 2 * (p_out.x - p_in.bbox[1]) <= p_in.bbox[3] - p_out.w
        /\ p_in.bbox[3] - p_out.w <= 2 * (p_out.x - p_in.bbox[1]) + 1

\* C2 as stated: with a bounding box the vertical paste coordinate is
\* y = by + floor(bh * vertical_offset_pct / 100) for every percentage in
\* -50..100, negative ones included.
C2_FloorOffset ==
    (Placing /\ HasBBox /\ Pasted) =>
        /\ 100 * (p_out.y - p_in.bbox[2]) <= p_in.bbox[4] * p_in.pct
        /\ p_in.bbox[4] * p_in.pct < 100 * (p_out.y - p_in.bbox[2] + 1)

\* C2 as amended: with a bounding box the vertical paste coordinate of a
\* pasted design is y = by + q, where q is bh * vertical_offset_pct / 100
\* rounded toward zero (the floor for a percentage >= 0, the ceiling for a
\* negative one); y is not clamped to the box or the canvas.
C2_TruncOffset ==
    (Placing /\ HasBBox /\ Pasted) =>
        IF p_in.pct >= 0
        THEN /\ 100 * (p_out.y - p_in.bbox[2]) <= p_in.bbox[4] * p_in.pct
             /\ p_in.bbox[4] * p_in.pct < 100 * (p_out.y - p_in.bbox[2] + 1)
        ELSE /\ 100 * (p_out.y - p_in.bbox[2] - 1) < p_in.bbox[4] * p_in.pct
             /\ p_in.bbox[4] * p_in.pct <= 100 * (p_out.y - p_in.bbox[2])

\* A negative percentage whose product is no multiple of 100 put the design
\* above the canvas's top edge.
C2_Witness ==
    /\ p_site = "batch" /\ HasBBox /\ Pasted
    /\ p_in.pct < 0
    /\ (p_in.bbox[4] * p_in.pct) % 100 # 0
    /\ p_out.y < 0

\* C3: with a bounding box, the resized design is no larger than the
\* original design and no larger than the box in either dimension, and the
\* horizontally centred design lies within the box's horizontal extent.
C3_NeverLarger ==
    (Placing /\ HasBBox /\ Pasted) =>
        /\ p_out.w <= p_in.dw /\ p_out.w <= p_in.bbox[3]
        /\ p_out.h <= p_in.dh /\ p_out.h <= p_in.bbox[4]
        /\ p_in.bbox[1] <= p_out.x
        /\ p_out.x + p_out.w <= p_in.bbox[1] + p_in.bbox[3]

\* A design wider than the box was scaled down to the box's full width at
\* padding ratio 1.0.
C3_Witness ==
    /\ p_site = "batch" /\ HasBBox /\ Pasted
    /\ p_in.k = PadMaxStep
    /\ p_in.dw > p_in.bbox[3]
    /\ p_out.w = p_in.bbox[3]
    /\ p_out.h < p_in.dh

\* C4: without a bounding box a design of at least one pixel is pasted
\* unresized at x = (template.width - design.width) // 2 and
\* y = (template.height - design.height) // 2 (floor division), whatever
\* the padding ratio and the vertical offset are, and a design larger than
\* the template gets negative coordinates without an error.
C4_FallbackCentred ==
    (Placing /\ ~HasBBox /\ p_in.dw >= 1 /\ p_in.dh >= 1) =>
        /\ Pasted
        /\ p_out.w = p_in.dw /\ p_out.h = p_in.dh
        /\ 2 * p_out.x <= p_in.tw - p_in.dw /\ p_in.tw - p_in.dw <= 2 * p_out.x + 1
        /\ 2 * p_out.y <= p_in.th - p_in.dh /\ p_in.th - p_in.dh <= 2 * p_out.y + 1

\* A design larger than an all-white template by an odd number of pixels
\* was pasted at negative coordinates under the largest offset and a
\* padding ratio below 1.
C4_Witness ==
    /\ p_site = "preview" /\ ~HasBBox /\ Pasted
    /\ p_in.dw > p_in.tw /\ (p_in.dw - p_in.tw) % 2 = 1
    /\ p_in.dh > p_in.th
    /\ p_in.pct = OffsetMax /\ p_in.k = PadMinStep
    /\ p_out.x < 0 /\ p_out.y < 0

ModelWordUpper == <<"M","O","D","E","L">>

\* The name holds the letters m, o, d, e, l in a row, each in either case.
NamesModel(name) ==
    \E i \in 1..(Len(name) - 4) :
        \A j \in 1..5 : name[i + j - 1] \in {ModelWord[j], ModelWordUpper[j]}

ShirtBound == "src" \in DOMAIN loc.shirt
DesignBound == "src" \in DOMAIN loc.design

\* C5: for the template the placement code last decoded, in the live
\* preview and in the batch loop, the padding ratio and the vertical offset
\* in use are both the model sliders' values if the template's file name
\* contains "model" in any letter case, and both the plain sliders' values
\* otherwise.
C5_ParamsByName ==
    ShirtBound =>
        IF NamesModel(ShirtName(loc.shirt.src))
        THEN /\ loc.padding_ratio = model_padding_ratio
             /\ loc.offset_pct = model_offset_pct
        ELSE /\ loc.padding_ratio = plain_padding_ratio
             /\ loc.offset_pct = plain_offset_pct

\* The batch loop composited a template named with upper-case MODEL while
\* the model sliders and the plain sliders differ.
C5_Witness ==
    /\ pc \in {"shirt", "close"} /\ si >= 1
    /\ ShirtBound
    /\ ~IsModelCaseSensitive(ShirtName(loc.shirt.src))
    /\ NamesModel(ShirtName(loc.shirt.src))
    /\ loc.padding_ratio = model_padding_ratio
    /\ model_padding_ratio # plain_padding_ratio
    /\ model_offset_pct # plain_offset_pct

\* The Generate handler ran its loops and ended.
BatchEnded == pc = "done" /\ di >= 1

\* The master archive holds a mockup of design d on template t.
Written(d, t) ==
    \E i \in 1..Len(master_zipf) :
        \E j \in 1..Len(master_zipf[i].data) :
            /\ master_zipf[i].data[j].data.src = t
            /\ master_zipf[i].data[j].data.layers[1].src = d

\* C6: in batch generation a failure to decode one design or one template
\* is confined to that item: every other pair of the batch is processed
\* and written to the archive, and the archive is offered for download.
C6_DecodeFailureConfined ==
    BatchEnded =>
        /\ outcome = "download"
        /\ \A i \in 1..Len(selected_batch.value), j \in 1..Len(shirt_files) :
              (DesignCatalogue[selected_batch.value[i]].ok
                  /\ ShirtCatalogue[shirt_files[j]].ok)
              => Written(selected_batch.value[i], shirt_files[j])

\* The mockup the script composes from freshly decoded files d and t under
\* the sliders' values.
FreshLayer(d, t) ==
    LET is_model == NamesModel(ShirtName(t))
        k == IF is_model THEN model_padding_ratio ELSE plain_padding_ratio
        pct == IF is_model THEN model_offset_pct ELSE plain_offset_pct
        place == PlacementOf(DesignCatalogue[d].w, DesignCatalogue[d].h,
                             ShirtCatalogue[t].w, ShirtCatalogue[t].h,
                             ShirtCatalogue[t].bbox, k, pct)
    IN [src |-> d, w |-> place.w, h |-> place.h, x |-> place.x, y |-> place.y]

\* C8: compositing changes neither the decoded template nor the decoded
\* design: the template object carries no pasted layer, the design object
\* has the size it was decoded with after every template of the inner loop,
\* and every mockup written for the current design is the template with the
\* one layer a fresh composite of that pair gives, whatever was processed
\* before it.
C8_InputsUnchanged ==
    /\ ShirtBound =>
          /\ loc.shirt.layers = << >>
          /\ loc.shirt.w = ShirtCatalogue[loc.shirt.src].w
          /\ loc.shirt.h = ShirtCatalogue[loc.shirt.src].h
    /\ DesignBound =>
          /\ loc.design.w = DesignCatalogue[loc.design.src].w
          /\ loc.design.h = DesignCatalogue[loc.design.src].h
    /\ \A j \in 1..Len(zipf) :
          /\ zipf[j].data.src = shirt_files[j]
          /\ zipf[j].data.w = ShirtCatalogue[shirt_files[j]].w
          /\ zipf[j].data.h = ShirtCatalogue[shirt_files[j]].h
          /\ zipf[j].data.layers = <<FreshLayer(loc.design.src, shirt_files[j])>>

\* Two templates with a detected region were composited with the same
\* design, which was scaled down both times.
C8_Witness ==
    /\ pc = "close" /\ Len(zipf) = 2
    /\ DesignBound /\ ShirtBound
    /\ zipf[1].data.layers[1].w < loc.design.w
    /\ zipf[2].data.layers[1].w < loc.design.w
    /\ zipf[1].data.layers[1].w # zipf[2].data.layers[1].w

\* The template file name without its extension.
WithoutExtension(name) ==
    LET dots == {i \in 2..Len(name) : name[i] = "."}
    IN IF dots = {} THEN name
       ELSE SubSeq(name, 1, (CHOOSE i \in dots : \A j \in dots : j <= i) - 1)

\* C9: when Generate is pressed with at least one design and one template,
\* the master archive receives, for each design at positions
\* batch_start..batch_end in upload order, exactly one inner archive
\* "{design_name}.zip" holding exactly one entry per template, in template
\* order, named "{design_name}_{template_name}_tee.png"; designs outside
\* the range produce no entry.
C9_ArchiveLayout ==
    BatchEnded =>
        /\ Len(master_zipf) = batch_end - batch_start + 1
        /\ \A i \in 1..Len(master_zipf) :
              LET design_name ==
                      design_names[DesignName(design_files[batch_start + i - 1])]
              IN /\ master_zipf[i].name = design_name \o <<".","z","i","p">>
                 /\ Len(master_zipf[i].data) = Len(shirt_files)
                 /\ \A j \in 1..Len(master_zipf[i].data) :
                       master_zipf[i].data[j].name =
                           design_name \o <<"_">>
                           \o WithoutExtension(ShirtName(shirt_files[j]))
                           \o <<"_","t","e","e",".","p","n","g">>

\* C10: a run in which Generate is pressed with no design or no template
\* uploaded shows the warning, creates no archive and ends without an
\* unhandled exception; the batch selection the handler reads is defined.
C10_WarningWithoutFiles ==
    (pc = "done" /\ (design_files = << >> \/ shirt_files = << >>)) =>
        /\ outcome = "warning"
        /\ selected_batch.bound
        /\ master_zipf = << >>
====
